---- MODULE Spec2Model ----
(***************************************************************************)
(* A model of AuthService (src/src/services/user.service.ts, lines 77-377) *)
(* of the CRUD example application: credential validation, JWT issuance,   *)
(* refresh-token rotation against the RefreshTokenDB store, and parsing of *)
(* presented tokens; and of the methods of UserService (lines 1-75) that   *)
(* change the accounts.                                                    *)
(*                                                                         *)
(* Strings are modelled by what the code does with them.  An Authorization *)
(* header is the sequence auth.split(" ") of its words (<<>> stands for    *)
(* undefined, <<Plain("")>> for the empty string); a text that is decoded   *)
(* or compared byte by byte (a credential, a login, a password) is the     *)
(* sequence of its bytes in UTF-8; a JWT is the key that signed it         *)
(* together with its payload.  JavaScript values carry their typeof in the *)
(* tag t.                                                                  *)
(*                                                                         *)
(* Every request is a task; the steps of a task are the code between two   *)
(* awaited store calls, so each call of RefreshTokenDB is a step of its    *)
(* own and the steps of concurrent requests interleave freely; so is the   *)
(* awaited findByLogin of validateCreds, and so are the queries of the     *)
(* user service, whose create, update and delete change the accounts that  *)
(* findByLogin reads.  The code that follows an awaited method of the      *)
(* service itself (login after issueRefreshToken, renew after              *)
(* assertRefreshTokenKnown) is a step too, so the clock may advance        *)
(* between the signing of the refresh token and that of the access token.  *)
(* A call of a store may also be rejected; the error then ends the         *)
(* request.                                                                *)
(*                                                                         *)
(* RefreshTokenDB, User and UserService.findByLogin are not among the      *)
(* sources; the accounts are a set of rows {id, login, password,           *)
(* isDeleted} and findByLogin answers as getRecord does, with a row that   *)
(* is not deleted;                                                         *)
(* the store is a set of rows {id, userID} with the three operations the   *)
(* service calls, fresh ids, no constraint among the rows of one user and  *)
(* no order among the rows findOne may return.                             *)
(***************************************************************************)
EXTENDS Integers, Sequences, FiniteSets, Bags, TLC

VARIABLES
    store,      \* the rows of RefreshTokenDB: records [id, userID]
    nextId,     \* the id RefreshTokenDB.create gives to the next row
    secret,     \* process.env.JWT_TOKEN_SECRET, read once at module load
    now,        \* Date.now(), in milliseconds
    ticks,      \* how many times the clock has advanced
    calls,      \* the bag of the requests in flight, each waiting on a call of a store
    last,       \* the response of the request that completed most recently
    logins,     \* history: the successful logins, in the order they completed
    nlogins,    \* history: how many logins sent their findByLogin query
    rot,        \* history: per user, how many destroy/create calls acted on the store
    users,      \* the rows of the accounts, as the user service keeps them
    nuserops    \* history: how many accounts were created, updated or deleted

vars == <<store, nextId, secret, now, ticks, calls, last, logins, nlogins, rot,
          users, nuserops>>

----------------------------------------------------------------------------
(* Bounds of the model *)

\* requests that may query the accounts: logins that reach findByLogin (each
\* creates at most one row) and calls of the user service
MaxLogins == 2
\* requests that may wait on the store at the same time
MaxInflight == 2
\* advances of the clock
MaxTicks == 1
\* calls of the user service that change the accounts
MaxUserOps == 1

----------------------------------------------------------------------------
(* JavaScript values *)

Undefined == [t |-> "undefined"]
Str(s) == [t |-> "string", v |-> s]
Obj(r) == [t |-> "object", v |-> r]

\* typeof x
TypeOf(x) == x.t

\* (f in x), for an object x
In(f, x) == f \in DOMAIN x.v

\* x.f, for an object x: undefined when the property is absent
Prop(x, f) == IF f \in DOMAIN x.v THEN x.v[f] ELSE Undefined

\* the outcome of an operation: a value returned or an error thrown
Ok(x) == [ok |-> TRUE, val |-> x]
Err(e) == [ok |-> FALSE, err |-> e]

----------------------------------------------------------------------------
(* Words of a header *)

Plain(s) == [w |-> "plain", s |-> s]
\* the base64 of a text
B64(text) == IF text = <<>> THEN Plain("") ELSE [w |-> "base64", text |-> text]
Jwt(key, payload) == [w |-> "jwt", key |-> key, payload |-> payload]

NoHeader == <<>>
EmptyHeader == <<Plain("")>>

----------------------------------------------------------------------------
(* Errors: the classes of lines 303-377, with their statusCode *)

AuthCredentialsInvalidError(userLogin) ==
    [name |-> "AuthCredentialsInvalidError", statusCode |-> 401, login |-> userLogin]

AuthHeaderMissingError ==
    [name |-> "AuthHeaderMissingError", statusCode |-> 401]

AuthTypeUnexpectedError(actual, expected) ==
    [name |-> "AuthTypeUnexpectedError", statusCode |-> 401,
     actual |-> actual, expected |-> expected]

AuthTokenTypeUnexpectedError(actual, expected) ==
    [name |-> "AuthTokenTypeUnexpectedError", statusCode |-> 403,
     actual |-> actual, expected |-> expected]

AuthTokenPayloadUnknownError(payload, hint) ==
    [name |-> "AuthTokenPayloadUnknownError", statusCode |-> 403,
     payload |-> payload, hint |-> hint]

AuthTokenExpiredError(type, expiration) ==
    [name |-> "AuthTokenExpiredError", statusCode |-> 403,
     type |-> type, expiredAt |-> expiration]

AuthRefreshTokenUnknownError(hint) ==
    [name |-> "AuthRefreshTokenUnknownError", statusCode |-> 403, hint |-> hint]

AuthJwtError(cause) ==
    [name |-> "AuthJwtError", statusCode |-> 401, cause |-> cause]

\* what jwt.sign throws without a key: a plain Error, no Service.Error
SignError == [name |-> "Error", cause |-> "secretOrPrivateKey must have a value"]

\* a rejected store call: whatever the store threw, propagated as it is
StoreError == [name |-> "StoreError"]

\* lines 71-75
UserNotFoundError(userID) == [name |-> "UserNotFoundError", userID |-> userID]

----------------------------------------------------------------------------
(* The collaborators: the account store and the jsonwebtoken library *)

\* the byte of the colon
Colon == 58

\* texts, as their bytes in UTF-8: "alice", "bob", "carol", "dave", "z\u00f6e"
alice == <<97, 108, 105, 99, 101>>
bob == <<98, 111, 98>>
carol == <<99, 97, 114, 111, 108>>
dave == <<100, 97, 118, 101>>
zoe == <<122, 195, 182, 101>>

\* "s3cret", "hunter2", "wrong", "pw", "p", "x", "p:w"
s3cret == <<115, 51, 99, 114, 101, 116>>
hunter2 == <<104, 117, 110, 116, 101, 114, 50>>
wrong == <<119, 114, 111, 110, 103>>
pw == <<112, 119>>
lowerP == <<112>>
lowerX == <<120>>
pColonW == <<112, Colon, 119>>

\* login + ":" + secret
Creds(login, password) == login \o <<Colon>> \o password

\* The accounts there are when the process starts
Users ==
    { [id |-> "u1", login |-> alice, password |-> s3cret,  isDeleted |-> FALSE],
      [id |-> "u2", login |-> bob,   password |-> hunter2, isDeleted |-> FALSE],
      [id |-> "u3", login |-> carol, password |-> pColonW, isDeleted |-> FALSE],
      [id |-> "u4", login |-> zoe,   password |-> pw,      isDeleted |-> FALSE] }

\* the id User.create gives the account it adds
NewUserID == "u5"

UserIDs == {u.id : u \in Users} \cup {NewUserID}

\* null, as findByLogin and findOne return it
Null == [id |-> "null"]

\* this.deps.userService.findByLogin(login): the account of that login that
\* is not deleted, or null; a set, one element for each answer there may be
findByLogin(rows, login) ==
    LET found == {u \in rows : u.login = login /\ ~u.isDeleted} IN
    IF found = {} THEN {Null} ELSE found

\* UserService.getRecord(id), lines 12-22: User.findOne({ where: { id,
\* isDeleted: false } }), and UserNotFoundError when there is none
getRecord(rows, id) ==
    LET found == {u \in rows : u.id = id /\ ~u.isDeleted} IN
    IF found = {} THEN Err(UserNotFoundError(id))
    ELSE Ok(CHOOSE u \in found : TRUE)

\* record.update(props), line 28: the properties named in props are set
WithProps(record, props) ==
    [f \in DOMAIN record |-> IF f \in DOMAIN props THEN props[f] ELSE record[f]]

\* the row of the record takes the properties named in props
updateRow(rows, id, props) ==
    {IF u.id = id THEN WithProps(u, props) ELSE u : u \in rows}

\* JWT_TOKEN_SECRET was not set
NoSecret == "unset"

\* the option clockTolerance of jwt.verify, in seconds
clockTolerance == 1

\* jwt.sign(payload, key, {expiresIn}): the payload gains exp = iat + expiresIn;
\* JSON drops a property whose value is undefined
jwtSign(payload, key, expiresIn) ==
    IF key = NoSecret
    THEN Err(SignError)
    ELSE LET exp == payload.iat + expiresIn
             body == IF payload.data = Undefined
                     THEN [tokenType |-> payload.tokenType,
                           iat |-> payload.iat, exp |-> exp]
                     ELSE [data |-> payload.data, tokenType |-> payload.tokenType,
                           iat |-> payload.iat, exp |-> exp]
         IN  Ok(Jwt(key, Obj(body)))

\* jwt.verify(token, key, {clockTolerance}), at clock value clock (ms)
jwtVerify(token, key, clock) ==
    IF token.w # "jwt"
    THEN Err([lib |-> "JsonWebTokenError", message |-> "jwt malformed"])
    ELSE IF key = NoSecret
    THEN Err([lib |-> "JsonWebTokenError",
              message |-> "secret or public key must be provided"])
    ELSE IF token.key # key
    THEN Err([lib |-> "JsonWebTokenError", message |-> "invalid signature"])
    ELSE IF /\ TypeOf(token.payload) = "object"
            /\ In("exp", token.payload)
            /\ clock \div 1000 >= token.payload.v.exp + clockTolerance
    THEN Err([lib |-> "TokenExpiredError", expiredAt |-> token.payload.v.exp * 1000])
    ELSE Ok(token.payload)

----------------------------------------------------------------------------
(* AuthService: the synchronous methods *)

\* jwtTokenLifespans, in seconds
jwtTokenLifespans(type) == IF type = "access" THEN 30 ELSE 604800

\* ms(lifespan), in milliseconds
ms(type) == jwtTokenLifespans(type) * 1000

\* parseAuthValue that looks for the value before it compares the type
parseAuthValueValueFirst(expectedType, auth) ==
    IF auth = NoHeader \/ auth = EmptyHeader
    THEN Err(AuthHeaderMissingError)
    ELSE IF Len(auth) < 2 \/ auth[2] = Plain("")
    THEN Err(AuthHeaderMissingError)
    ELSE IF auth[1] # Plain(expectedType)
    THEN Err(AuthTypeUnexpectedError(auth[1], expectedType))
    ELSE Ok(auth[2])

\* parseAuthValue(expectedType, auth)
parseAuthValue(expectedType, auth) ==
    IF auth = NoHeader \/ auth = EmptyHeader
    THEN Err(AuthHeaderMissingError)
    ELSE IF auth[1] # Plain(expectedType)
    THEN Err(AuthTypeUnexpectedError(auth[1], expectedType))
    ELSE IF Len(auth) < 2 \/ auth[2] = Plain("")
    THEN Err(AuthHeaderMissingError)
    ELSE Ok(auth[2])

\* the bytes of a text that the model does not spell out: the signature of a
\* JWT and what is decoded with it.  It is no byte, so it is no separator and
\* a field that holds it equals no text of the model.
Unread == 256

\* Buffer.toString("ascii"): every byte loses its high bit
Ascii(text) ==
    [i \in 1..Len(text) |-> IF text[i] = Unread THEN Unread ELSE text[i] % 128]

\* String.split(sep): the fields between the separators
RECURSIVE Split(_, _)
Split(text, sep) ==
    IF \A i \in 1..Len(text) : text[i] # sep
    THEN <<text>>
    ELSE LET k == CHOOSE i \in 1..Len(text) :
                      text[i] = sep /\ \A j \in 1..(i - 1) : text[j] # sep
         IN  <<SubSeq(text, 1, k - 1)>> \o Split(SubSeq(text, k + 1, Len(text)), sep)

\* the bytes of the strings that are signed as the payload of a JWT
Utf8(s) ==
    CASE s = "hello" -> <<104, 101, 108, 108, 111>>
      [] s = "admin" -> <<97, 100, 109, 105, 110>>
      [] s = "u1" -> <<117, 49>>

\* the header with which the text of a JWT begins: {"alg":"HS256","typ":"JWT"}
\* when the payload is an object, {"alg":"HS256"} when it is a string, for
\* which jwt.sign writes no typ
JwtHeaderText(payload) ==
    IF payload.t = "object"
    THEN <<123, 34, 97, 108, 103, 34, Colon, 34, 72, 83, 50, 53, 54, 34, 44,
           34, 116, 121, 112, 34, Colon, 34, 74, 87, 84, 34, 125>>
    ELSE <<123, 34, 97, 108, 103, 34, Colon, 34, 72, 83, 50, 53, 54, 34, 125>>

\* Buffer.from(token, "base64") of a JWT, whose dots the decoder skips: the
\* header, then the payload, then what the signature decodes to.  Both
\* headers fill whole groups of four characters, so the payload that follows
\* is decoded as it was encoded.  A string payload is signed as it is; the
\* JSON of an object payload lies behind the two colons of its header, where
\* the first two fields of the text do not reach, and is not spelled out.
JwtText(token) ==
    JwtHeaderText(token.payload)
        \o (IF token.payload.t = "string" THEN Utf8(token.payload.v) ELSE <<>>)
        \o <<Unread>>

\* Buffer.from(s, "base64") of a word that is no base64 of a text: "x" holds
\* no whole byte, "garbage" holds five, "tail" three
PlainBase64(s) ==
    CASE s = "" -> <<>>
      [] s = "x" -> <<>>
      [] s = "garbage" -> <<129, 170, 219, 106, 7>>
      [] s = "tail" -> <<181, 168, 165>>

\* lines 172-174: Buffer.from(credsRaw, "base64").toString("ascii") and
\* const [login, password] = creds.split(":"): the first two fields, or the
\* one there is.  The text of a JWT decodes to its header, its payload and its
\* signature: with an object payload the two colons of the header end its
\* first two fields, with a string payload the second field runs on through
\* the payload into the signature.
decodeCreds(credsRaw) ==
    LET text == CASE credsRaw.w = "base64" -> credsRaw.text
                  [] credsRaw.w = "jwt" -> JwtText(credsRaw)
                  [] credsRaw.w = "plain" -> PlainBase64(credsRaw.s)
        fields == Split(Ascii(text), Colon)
    IN  SubSeq(fields, 1, IF Len(fields) < 2 THEN Len(fields) ELSE 2)

\* validateCreds that reports an unknown login with an error of its own
validateCredsLookupUnknownLogin(creds, user) ==
    LET login == creds[1]
        password == IF Len(creds) >= 2 THEN <<creds[2]>> ELSE <<>>
    IN  IF user = Null
        THEN Err([name |-> "AuthLoginUnknownError", statusCode |-> 404, login |-> login])
        ELSE IF password # <<user.password>>
        THEN Err(AuthCredentialsInvalidError(login))
        ELSE Ok(user)

\* validateCreds, lines 176-181, once findByLogin has answered with user:
\* creds holds login and, when the credential has a colon, password
validateCredsLookup(creds, user) ==
    LET login == creds[1]
        \* undefined when the credential holds no colon
        password == IF Len(creds) >= 2 THEN <<creds[2]>> ELSE <<>>
    IN  IF user = Null \/ password # <<user.password>>
        THEN Err(AuthCredentialsInvalidError(login))
        ELSE Ok(user)

\* validateCreds(auth), when findByLogin answers with user
validateCreds(auth, user) ==
    LET credsRaw == parseAuthValue("Basic", auth) IN
    IF ~credsRaw.ok THEN credsRaw
    ELSE validateCredsLookup(decodeCreds(credsRaw.val), user)

\* sign(payload, options)
sign(payload, expiresIn, key) == jwtSign(payload, key, expiresIn)

\* issueToken that adds the tolerance of the verification to expiresAt
issueTokenAddsTolerance(type, data, clock, key) ==
    LET token == sign([data |-> data, tokenType |-> type, iat |-> clock \div 1000],
                      jwtTokenLifespans(type), key)
    IN  IF ~token.ok THEN token
        ELSE Ok([type |-> type, value |-> token.val,
                 issuedAt |-> clock,
                 expiresAt |-> clock + ms(type) + clockTolerance * 1000])

\* issueToken(type, data), at clock value clock with the key of the process
issueToken(type, data, clock, key) ==
    LET token == sign([data |-> data, tokenType |-> type, iat |-> clock \div 1000],
                      jwtTokenLifespans(type), key)
    IN  IF ~token.ok THEN token
        ELSE Ok([type |-> type, value |-> token.val,
                 issuedAt |-> clock, expiresAt |-> clock + ms(type)])

\* extractPayload that verifies as if clockTolerance were 2
extractPayloadTolerance2(type, token, clock, key) ==
    LET res == jwtVerify(token, key, clock - 1000) IN
    IF res.ok THEN res
    ELSE IF res.err.lib = "TokenExpiredError"
    THEN Err(AuthTokenExpiredError(type, res.err.expiredAt))
    ELSE Err(AuthJwtError(res.err.message))

\* extractPayload that decodes an expired token instead of refusing it
extractPayloadIgnoringExpiry(type, token, clock, key) ==
    LET res == jwtVerify(token, key, clock) IN
    IF res.ok THEN res
    ELSE IF res.err.lib = "TokenExpiredError"
    THEN Ok(token.payload)
    ELSE Err(AuthJwtError(res.err.message))

\* extractPayload(type, token)
extractPayload(type, token, clock, key) ==
    LET res == jwtVerify(token, key, clock) IN
    IF res.ok THEN res
    ELSE IF res.err.lib = "TokenExpiredError"
    THEN Err(AuthTokenExpiredError(type, res.err.expiredAt))
    ELSE Err(AuthJwtError(res.err.message))

\* parseToken that returns the payload in place of its data
parseTokenWholePayload(expectedType, auth, clock, key) ==
    LET token == parseAuthValue("Bearer", auth) IN
    IF ~token.ok THEN token
    ELSE LET payload == extractPayload(expectedType, token.val, clock, key) IN
    IF ~payload.ok THEN payload
    ELSE IF TypeOf(payload.val) # "object"
    THEN Err(AuthTokenPayloadUnknownError(payload.val,
                 "payload is not of an object type"))
    ELSE IF ~In("tokenType", payload.val)
    THEN Err(AuthTokenPayloadUnknownError(payload.val,
                 "tokenType property is missing"))
    ELSE IF payload.val.v.tokenType # expectedType
    THEN Err(AuthTokenTypeUnexpectedError(payload.val.v.tokenType, expectedType))
    ELSE Ok(payload.val)

\* parseToken that accepts a token only while the store holds a refresh token
parseTokenAsksStore(expectedType, auth, clock, key) ==
    LET token == parseAuthValue("Bearer", auth) IN
    IF ~token.ok THEN token
    ELSE LET payload == extractPayload(expectedType, token.val, clock, key) IN
    IF ~payload.ok THEN payload
    ELSE IF TypeOf(payload.val) # "object"
    THEN Err(AuthTokenPayloadUnknownError(payload.val,
                 "payload is not of an object type"))
    ELSE IF ~In("tokenType", payload.val)
    THEN Err(AuthTokenPayloadUnknownError(payload.val,
                 "tokenType property is missing"))
    ELSE IF payload.val.v.tokenType # expectedType
    THEN Err(AuthTokenTypeUnexpectedError(payload.val.v.tokenType, expectedType))
    ELSE IF store = {}
    THEN Err(AuthRefreshTokenUnknownError("user does not have associated refresh tokens"))
    ELSE Ok(Prop(payload.val, "data"))

\* parseToken that decodes the token and compares its tokenType before it
\* verifies the signature and the expiry
parseTokenKindFirst(expectedType, auth, clock, key) ==
    LET token == parseAuthValue("Bearer", auth) IN
    IF ~token.ok THEN token
    ELSE IF /\ token.val.w = "jwt"
            /\ TypeOf(token.val.payload) = "object"
            /\ In("tokenType", token.val.payload)
            /\ token.val.payload.v.tokenType # expectedType
    THEN Err(AuthTokenTypeUnexpectedError(token.val.payload.v.tokenType, expectedType))
    ELSE LET payload == extractPayload(expectedType, token.val, clock, key) IN
    IF ~payload.ok THEN payload
    ELSE IF TypeOf(payload.val) # "object"
    THEN Err(AuthTokenPayloadUnknownError(payload.val,
                 "payload is not of an object type"))
    ELSE IF ~In("tokenType", payload.val)
    THEN Err(AuthTokenPayloadUnknownError(payload.val,
                 "tokenType property is missing"))
    ELSE Ok(Prop(payload.val, "data"))

\* parseToken without the comparison of tokenType with expectedType
parseTokenAnyKind(expectedType, auth, clock, key) ==
    LET token == parseAuthValue("Bearer", auth) IN
    IF ~token.ok THEN token
    ELSE LET payload == extractPayload(expectedType, token.val, clock, key) IN
    IF ~payload.ok THEN payload
    ELSE IF TypeOf(payload.val) # "object"
    THEN Err(AuthTokenPayloadUnknownError(payload.val,
                 "payload is not of an object type"))
    ELSE IF ~In("tokenType", payload.val)
    THEN Err(AuthTokenPayloadUnknownError(payload.val,
                 "tokenType property is missing"))
    ELSE Ok(Prop(payload.val, "data"))

\* parseToken(expectedType, auth)
parseToken(expectedType, auth, clock, key) ==
    LET token == parseAuthValue("Bearer", auth) IN
    IF ~token.ok THEN token
    ELSE LET payload == extractPayload(expectedType, token.val, clock, key) IN
    IF ~payload.ok THEN payload
    ELSE IF TypeOf(payload.val) # "object"
    THEN Err(AuthTokenPayloadUnknownError(payload.val,
                 "payload is not of an object type"))
    ELSE IF ~In("tokenType", payload.val)
    THEN Err(AuthTokenPayloadUnknownError(payload.val,
                 "tokenType property is missing"))
    ELSE IF payload.val.v.tokenType # expectedType
    THEN Err(AuthTokenTypeUnexpectedError(payload.val.v.tokenType, expectedType))
    ELSE Ok(Prop(payload.val, "data"))

\* renew(auth, data), lines 281-293: up to the call of assertRefreshTokenKnown
renewTokenData(auth, clock, key) ==
    LET tokenData == parseToken("refresh", auth, clock, key) IN
    IF ~tokenData.ok THEN tokenData
    ELSE LET payload == Obj([data |-> tokenData.val]) IN
    IF TypeOf(tokenData.val) # "object"
    THEN Err(AuthTokenPayloadUnknownError(payload,
                 "refresh token payload data is not an object"))
    ELSE IF ~In("tokenID", tokenData.val)
    THEN Err(AuthTokenPayloadUnknownError(payload,
                 "tokenID property is missing in refresh token payload data object"))
    ELSE IF ~In("userID", tokenData.val)
    THEN Err(AuthTokenPayloadUnknownError(payload,
                 "userID property is missing in refresh token payload data object"))
    ELSE Ok(tokenData.val.v)

----------------------------------------------------------------------------
(* RefreshTokenDB *)

\* the rows where: { userID }
RowsOf(rows, userID) == {row \in rows : row.userID = userID}

\* RefreshTokenDB.destroy({ where: { userID } }): every row of the user goes
destroy(rows, userID) == rows \ RowsOf(rows, userID)

\* RefreshTokenDB.create({ userID }): a row with an id no row had before; the
\* store puts no constraint on the rows of one user
create(rows, id, userID) == rows \cup {[id |-> id, userID |-> userID]}

\* RefreshTokenDB.findOne({ where: { userID } }): the rows it may return, the
\* query giving no order among several rows of one user
findOne(rows, userID) ==
    IF RowsOf(rows, userID) = {} THEN {Null} ELSE RowsOf(rows, userID)

\* assertRefreshTokenKnown without the comparison of the ids: any row of the
\* user makes the token known
assertRefreshTokenKnownAnyRow(tokenDB, userID, tokenID) ==
    IF tokenDB = Null
    THEN Err(AuthRefreshTokenUnknownError("user does not have associated refresh tokens"))
    ELSE Ok(Undefined)

\* assertRefreshTokenKnown without the test for null: only a row with another
\* id makes the token unknown
assertRefreshTokenKnownNullPasses(tokenDB, userID, tokenID) ==
    IF tokenDB # Null /\ tokenDB.id # tokenID
    THEN Err(AuthRefreshTokenUnknownError("refresh token is not associated with user"))
    ELSE Ok(Undefined)

\* assertRefreshTokenKnown(userID, tokenID), given the row findOne returned
assertRefreshTokenKnown(tokenDB, userID, tokenID) ==
    IF tokenDB = Null
    THEN Err(AuthRefreshTokenUnknownError("user does not have associated refresh tokens"))
    ELSE IF tokenDB.id # tokenID
    THEN Err(AuthRefreshTokenUnknownError("refresh token is not associated with user"))
    ELSE Ok(Undefined)

----------------------------------------------------------------------------
(* What the clients send *)

Basic(text) == <<Plain("Basic"), B64(text)>>
Bearer(token) == <<Plain("Bearer"), token>>

\* the Authorization headers presented to login
LoginHeaders ==
    { NoHeader, EmptyHeader,
      Bearer(Plain("x")),
      Basic(Creds(alice, s3cret)),
      Basic(Creds(alice, wrong)),
      Basic(Creds(dave, s3cret)),
      Basic(Creds(bob, hunter2)) }

\* the second argument of login and renew, the data of the access token: an
\* object that has the properties of the data of a refresh token
AccessData == { Obj([tokenID |-> 1, userID |-> "u1"]) }

\* the key the process may be configured with, and a key it never has
Keys == {"k1"}
ForeignKey == "k2"

\* tokens no call of this service returned: text that is no JWT, a token signed
\* with another key, and tokens some holder of the key signed with a payload
\* that issueToken never builds
CraftedTokens ==
    { Plain("garbage"),
      Jwt(ForeignKey, Obj([data |-> Obj([tokenID |-> 1, userID |-> "u1"]),
                           tokenType |-> "refresh", iat |-> 0, exp |-> 604800])),
      Jwt("k1", Obj([data |-> Obj([userID |-> "u1"]),
                     tokenType |-> "refresh", iat |-> 0])),
      Jwt("k1", Obj([data |-> Obj([tokenID |-> 1]),
                     tokenType |-> "refresh", iat |-> 0])) }

\* the tokens the clients present again: the refresh tokens of the successful
\* logins and the access token of the latest response
IssuedTokens ==
    { logins[k].refreshToken.value : k \in 1..Len(logins) }
        \cup (IF last.op \in {"login", "renew"} /\ last.result.ok
              THEN {last.result.val.accessToken.value} ELSE {})

\* the Authorization headers presented to renew and to parseToken
TokenHeaders ==
    { NoHeader, Basic(Creds(alice, s3cret)) }
        \cup { Bearer(t) : t \in IssuedTokens \cup CraftedTokens }

\* the steps by which the clock advances, in milliseconds
ClockSteps == { 604801000 }

\* the accounts that are created
NewUsers == { [login |-> dave, password |-> s3cret] }

\* the accounts that are updated, and the properties they are given
UpdatedIDs == { "u1" }
UpdatedProps == { [password |-> wrong] }

\* the accounts that are deleted
DeletedIDs == { "u1" }

----------------------------------------------------------------------------
(* The state machine *)

NoResponse == [op |-> "none"]

\* no properties
NoProps == [f \in {} |-> f]

Response(op, auth, result) == [op |-> op, auth |-> auth, result |-> result]

Init ==
    /\ store = {}
    /\ nextId = 1
    /\ secret \in Keys \cup {NoSecret}
    /\ now = 0
    /\ ticks = 0
    /\ calls = EmptyBag
    /\ last = NoResponse
    /\ logins = <<>>
    /\ nlogins = 0
    /\ rot = [u \in UserIDs |-> 0]
    /\ users = Users
    /\ nuserops = 0

\* login(auth, data), line 224, and validateCreds, lines 169-176: the header
\* is parsed and the credential decoded; then the findByLogin query is sent
LoginStart(auth, data) ==
    LET credsRaw == parseAuthValue("Basic", auth) IN
    IF ~credsRaw.ok
    THEN /\ last' = Response("login", auth, credsRaw)
         /\ UNCHANGED <<store, nextId, secret, users, nuserops, now, ticks, calls, logins, nlogins, rot>>
    ELSE /\ BagCardinality(calls) < MaxInflight
         /\ nlogins + nuserops < MaxLogins
         /\ calls' = calls (+) SetToBag({[op |-> "login", pc |-> "findByLogin",
                                    auth |-> auth, data |-> data,
                                    creds |-> decodeCreds(credsRaw.val),
                                    userID |-> "", tokenID |-> 0,
                                    start |-> Len(logins), rot0 |-> 0,
                                    record |-> Null, props |-> NoProps,
                                    refreshToken |-> Null]})
         /\ nlogins' = nlogins + 1
         /\ UNCHANGED <<store, nextId, secret, users, nuserops, now, ticks, last, logins, rot>>

\* login that destroys the rows of the named user before it compares the
\* password
LoginLookupDestroysFirst(c) ==
    /\ c.op = "login" /\ c.pc = "findByLogin"
    /\ \E found \in findByLogin(users, c.creds[1]) :
          LET user == validateCredsLookup(c.creds, found) IN
          IF ~user.ok
          THEN /\ last' = Response("login", c.auth, user)
               /\ calls' = calls (-) SetToBag({c})
               /\ store' = IF found = Null THEN store ELSE destroy(store, found.id)
               /\ UNCHANGED <<nextId, secret, users, nuserops, now, ticks, logins,
                              nlogins, rot>>
          ELSE /\ calls' = (calls (-) SetToBag({c}))
                              (+) SetToBag({[c EXCEPT !.pc = "destroy",
                                                      !.userID = user.val.id,
                                                      !.rot0 = rot[user.val.id],
                                                      !.record = user.val]})
               /\ UNCHANGED <<store, nextId, secret, users, nuserops, now, ticks,
                              last, logins, nlogins, rot>>

\* validateCreds, lines 176-181, and issueRefreshToken, line 211: findByLogin
\* answers; the password is compared; then the destroy query is sent
LoginLookup(c) ==
    /\ c.op = "login" /\ c.pc = "findByLogin"
    /\ \E found \in findByLogin(users, c.creds[1]) :
          LET user == validateCredsLookup(c.creds, found) IN
          IF ~user.ok
          THEN /\ last' = Response("login", c.auth, user)
               /\ calls' = calls (-) SetToBag({c})
               /\ UNCHANGED <<store, nextId, secret, users, nuserops, now, ticks,
                              logins, nlogins, rot>>
          ELSE /\ calls' = (calls (-) SetToBag({c}))
                              (+) SetToBag({[c EXCEPT !.pc = "destroy",
                                                      !.userID = user.val.id,
                                                      !.rot0 = rot[user.val.id],
                                                      !.record = user.val]})
               /\ UNCHANGED <<store, nextId, secret, users, nuserops, now, ticks,
                              last, logins, nlogins, rot>>

\* the destroy of issueRefreshToken without its where clause: every row goes
LoginDestroyEveryRow(c) ==
    /\ c.op = "login" /\ c.pc = "destroy"
    /\ store' = {}
    /\ rot' = [rot EXCEPT ![c.userID] = @ + 1]
    /\ calls' = (calls (-) SetToBag({c})) (+) SetToBag({[c EXCEPT !.pc = "create"]})
    /\ UNCHANGED <<nextId, secret, users, nuserops, now, ticks, last, logins, nlogins>>

\* issueRefreshToken, lines 211-216: RefreshTokenDB.destroy({ where: { userID } })
\* takes effect; then the create query is sent
LoginDestroy(c) ==
    /\ c.op = "login" /\ c.pc = "destroy"
    /\ store' = destroy(store, c.userID)
    /\ rot' = [rot EXCEPT ![c.userID] = @ + 1]
    /\ calls' = (calls (-) SetToBag({c})) (+) SetToBag({[c EXCEPT !.pc = "create"]})
    /\ UNCHANGED <<nextId, secret, users, nuserops, now, ticks, last, logins, nlogins>>

\* issueRefreshToken, lines 216-219: RefreshTokenDB.create({ userID }) takes
\* effect and the refresh token is signed; login then waits for the promise
\* of issueRefreshToken to settle (line 225)
LoginCreate(c) ==
    LET tokenDB == [id |-> nextId, userID |-> c.userID]
        refreshToken == issueToken("refresh",
                            Obj([tokenID |-> tokenDB.id, userID |-> c.userID]),
                            now, secret)
    IN  /\ c.op = "login" /\ c.pc = "create"
        /\ store' = create(store, tokenDB.id, tokenDB.userID)
        /\ nextId' = nextId + 1
        /\ rot' = [rot EXCEPT ![c.userID] = @ + 1]
        /\ IF ~refreshToken.ok
           THEN /\ last' = Response("login", c.auth, refreshToken)
                /\ calls' = calls (-) SetToBag({c})
           ELSE /\ calls' = (calls (-) SetToBag({c}))
                               (+) SetToBag({[c EXCEPT !.pc = "issueToken",
                                                       !.tokenID = tokenDB.id,
                                                       !.refreshToken = refreshToken.val]})
                /\ UNCHANGED last
        /\ UNCHANGED <<secret, users, nuserops, now, ticks, logins, nlogins>>

\* login, lines 225-231: the promise of issueRefreshToken has settled; the
\* access token is signed, with the clock as it is by then, and both tokens
\* are returned
LoginReturn(c) ==
    LET accessToken == issueToken("access", c.data, now, secret) IN
    /\ c.op = "login" /\ c.pc = "issueToken"
    /\ calls' = calls (-) SetToBag({c})
    /\ IF ~accessToken.ok
       THEN /\ last' = Response("login", c.auth, accessToken)
            /\ UNCHANGED logins
       ELSE /\ last' = Response("login", c.auth,
                           Ok([accessToken |-> accessToken.val,
                               refreshToken |-> c.refreshToken]))
            /\ logins' = Append(logins,
                           [userID |-> c.userID,
                            refreshToken |-> c.refreshToken,
                            start |-> c.start,
                            rot0 |-> c.rot0, rot1 |-> rot[c.userID]])
    /\ UNCHANGED <<store, nextId, secret, users, nuserops, now, ticks, nlogins, rot>>

\* renew(auth, data), lines 281-295: parseToken and the checks of the token
\* data; then assertRefreshTokenKnown sends the findOne query
RenewStart(auth, data) ==
    LET tokenData == renewTokenData(auth, now, secret) IN
    IF ~tokenData.ok
    THEN /\ last' = Response("renew", auth, tokenData)
         /\ UNCHANGED <<store, nextId, secret, users, nuserops, now, ticks, calls, logins, nlogins, rot>>
    ELSE /\ BagCardinality(calls) < MaxInflight
         /\ calls' = calls (+) SetToBag({[op |-> "renew", pc |-> "findOne", auth |-> auth,
                                    data |-> data, creds |-> <<>>,
                                    userID |-> tokenData.val.userID,
                                    tokenID |-> tokenData.val.tokenID,
                                    start |-> 0, rot0 |-> 0,
                                    record |-> Null, props |-> NoProps,
                                    refreshToken |-> Null]})
         /\ UNCHANGED <<store, nextId, secret, users, nuserops, now, ticks, last, logins, nlogins, rot>>

\* assertRefreshTokenKnown, lines 268-276: findOne answers with tokenDB and
\* the row is compared with the token; renew then waits for the promise of
\* assertRefreshTokenKnown to settle (line 295)
RenewFindOne(c) ==
    /\ c.op = "renew" /\ c.pc = "findOne"
    /\ \E tokenDB \in findOne(store, c.userID) :
          LET known == assertRefreshTokenKnown(tokenDB, c.userID, c.tokenID) IN
          IF ~known.ok
          THEN /\ last' = Response("renew", c.auth, known)
               /\ calls' = calls (-) SetToBag({c})
          ELSE /\ calls' = (calls (-) SetToBag({c}))
                              (+) SetToBag({[c EXCEPT !.pc = "issueToken"]})
               /\ UNCHANGED last
    /\ UNCHANGED <<store, nextId, secret, users, nuserops, now, ticks, logins, nlogins, rot>>

\* renew, lines 295-299: the promise of assertRefreshTokenKnown has settled;
\* the access token is signed, with the clock as it is by then, and returned
RenewReturn(c) ==
    LET accessToken == issueToken("access", c.data, now, secret) IN
    /\ c.op = "renew" /\ c.pc = "issueToken"
    /\ calls' = calls (-) SetToBag({c})
    /\ last' = Response("renew", c.auth,
                    IF ~accessToken.ok THEN accessToken
                    ELSE Ok([accessToken |-> accessToken.val]))
    /\ UNCHANGED <<store, nextId, secret, users, nuserops, now, ticks, logins, nlogins, rot>>

\* the call of a method of the user service, waiting for its first query
UserCall(op, pc, id, props) ==
    [op |-> op, pc |-> pc, auth |-> NoHeader, data |-> Undefined, creds |-> <<>>,
     userID |-> id, tokenID |-> 0, start |-> 0, rot0 |-> 0,
     record |-> Null, props |-> props, refreshToken |-> Null]

\* UserService.create(props), line 47: the User.create query is sent
UserCreateStart(props) ==
    /\ BagCardinality(calls) < MaxInflight
    /\ nuserops < MaxUserOps /\ nlogins + nuserops < MaxLogins
    /\ calls' = calls (+) SetToBag({UserCall("create", "create", NewUserID, props)})
    /\ nuserops' = nuserops + 1
    /\ UNCHANGED <<store, nextId, secret, users, now, ticks, last, logins, nlogins, rot>>

\* UserService.create, lines 47-49: User.create(props) takes effect and the
\* account is returned
UserCreate(c) ==
    LET record == [id |-> c.userID, login |-> c.props.login,
                   password |-> c.props.password, isDeleted |-> FALSE]
    IN  /\ c.op = "create" /\ c.pc = "create"
        /\ users' = users \cup {record}
        /\ calls' = calls (-) SetToBag({c})
        /\ last' = Response("create", c.auth, Ok(record))
        /\ UNCHANGED <<store, nextId, secret, nuserops, now, ticks, logins, nlogins, rot>>

\* UserService.update(id, props), line 59, and updateAnyProps, line 26: the
\* findOne query of getRecord is sent
UserUpdateStart(id, props) ==
    /\ BagCardinality(calls) < MaxInflight
    /\ nuserops < MaxUserOps /\ nlogins + nuserops < MaxLogins
    /\ calls' = calls (+) SetToBag({UserCall("update", "getRecord", id, props)})
    /\ nuserops' = nuserops + 1
    /\ UNCHANGED <<store, nextId, secret, users, now, ticks, last, logins, nlogins, rot>>

\* UserService.delete(id), line 65, and updateAnyProps, line 26: the findOne
\* query of getRecord is sent
UserDeleteStart(id) ==
    /\ BagCardinality(calls) < MaxInflight
    /\ nuserops < MaxUserOps /\ nlogins + nuserops < MaxLogins
    /\ calls' = calls (+) SetToBag({UserCall("delete", "getRecord", id,
                                             [isDeleted |-> TRUE])})
    /\ nuserops' = nuserops + 1
    /\ UNCHANGED <<store, nextId, secret, users, now, ticks, last, logins, nlogins, rot>>

\* updateAnyProps, lines 26-28: getRecord answers; then the update query of
\* the record is sent
UserGetRecord(c) ==
    LET record == getRecord(users, c.userID) IN
    /\ c.op \in {"update", "delete"} /\ c.pc = "getRecord"
    /\ IF ~record.ok
       THEN /\ last' = Response(c.op, c.auth, record)
            /\ calls' = calls (-) SetToBag({c})
       ELSE /\ calls' = (calls (-) SetToBag({c}))
                           (+) SetToBag({[c EXCEPT !.pc = "update",
                                                   !.record = record.val]})
            /\ UNCHANGED last
    /\ UNCHANGED <<store, nextId, secret, users, nuserops, now, ticks, logins,
                   nlogins, rot>>

\* updateAnyProps, line 28, and update, line 61, or delete, line 67:
\* record.update(props) takes effect and the account is returned
UserRecordUpdate(c) ==
    /\ c.op \in {"update", "delete"} /\ c.pc = "update"
    /\ users' = updateRow(users, c.userID, c.props)
    /\ calls' = calls (-) SetToBag({c})
    /\ last' = Response(c.op, c.auth, Ok(WithProps(c.record, c.props)))
    /\ UNCHANGED <<store, nextId, secret, nuserops, now, ticks, logins, nlogins, rot>>

\* a call of RefreshTokenDB, of User or of findByLogin is rejected: the error
\* propagates as it is
StoreFails(c) ==
    /\ c.pc # "issueToken"
    /\ calls' = calls (-) SetToBag({c})
    /\ last' = Response(c.op, c.auth, Err(StoreError))
    /\ UNCHANGED <<store, nextId, secret, users, nuserops, now, ticks, logins, nlogins, rot>>

\* parseToken(expectedType, auth), called by a collaborator
ParseToken(expectedType, auth) ==
    /\ last' = [op |-> "parseToken", auth |-> auth, expectedType |-> expectedType,
                 result |-> parseToken(expectedType, auth, now, secret)]
    /\ UNCHANGED <<store, nextId, secret, users, nuserops, now, ticks, calls, logins, nlogins, rot>>

\* time passes
Tick(d) ==
    /\ ticks < MaxTicks
    /\ now' = now + d
    /\ ticks' = ticks + 1
    /\ UNCHANGED <<store, nextId, secret, users, nuserops, calls, last, logins, nlogins, rot>>

Next ==
    \/ \E auth \in LoginHeaders, data \in AccessData : LoginStart(auth, data)
    \/ \E c \in BagToSet(calls) : LoginLookup(c)
    \/ \E c \in BagToSet(calls) : LoginDestroy(c)
    \/ \E c \in BagToSet(calls) : LoginCreate(c)
    \/ \E c \in BagToSet(calls) : LoginReturn(c)
    \/ \E auth \in TokenHeaders, data \in AccessData : RenewStart(auth, data)
    \/ \E c \in BagToSet(calls) : RenewFindOne(c)
    \/ \E c \in BagToSet(calls) : RenewReturn(c)
    \/ \E props \in NewUsers : UserCreateStart(props)
    \/ \E c \in BagToSet(calls) : UserCreate(c)
    \/ \E id \in UpdatedIDs, props \in UpdatedProps : UserUpdateStart(id, props)
    \/ \E id \in DeletedIDs : UserDeleteStart(id)
    \/ \E c \in BagToSet(calls) : UserGetRecord(c)
    \/ \E c \in BagToSet(calls) : UserRecordUpdate(c)
    \/ \E c \in BagToSet(calls) : StoreFails(c)
    \/ \E type \in {"access", "refresh"}, auth \in TokenHeaders : ParseToken(type, auth)
    \/ \E d \in ClockSteps : Tick(d)

Spec == Init /\ [][Next]_vars

----------------------------------------------------------------------------
(* One client, one request at a time: the same handlers over more headers, *)
(* more token payloads and a clock that stops around the expiry of a token *)

\* the Authorization headers presented to login
LoginHeadersSeq ==
    { NoHeader, EmptyHeader,
      <<Plain("Bearer")>>,
      Bearer(Plain("x")),
      <<Plain("Basic")>>,
      <<Plain("Basic"), Plain("")>>,
      <<Plain("basic"), B64(Creds(alice, s3cret))>>,
      <<Plain("Basic"), B64(Creds(alice, s3cret)), Plain("tail")>>,
      <<Plain("Basic"), Plain("x")>>,
      <<Plain("Basic"), Plain("garbage")>>,
      <<Plain("Basic"), Jwt("k1", Obj([tokenType |-> "refresh", iat |-> 0]))>>,
      <<Plain("Basic"), Jwt("k1", Str("hello"))>>,
      Basic(Creds(alice, s3cret)),
      Basic(Creds(alice, wrong)),
      Basic(alice),
      Basic(Creds(alice, Creds(s3cret, lowerX))),
      Basic(Creds(dave, s3cret)),
      Basic(Creds(carol, pColonW)),
      Basic(Creds(carol, lowerP)),
      Basic(Creds(zoe, pw)),
      Basic(Creds(bob, hunter2)) }

\* the data of the access token: absent, a string, an object
AccessDataSeq ==
    { Undefined, Str("admin"), Obj([tokenID |-> 1, userID |-> "u1"]) }

\* tokens no call of this service returned
CraftedTokensSeq ==
    CraftedTokens \cup
    { Jwt("k1", Str("hello")),
      Jwt("k1", Obj([data |-> Obj([tokenID |-> 1, userID |-> "u1"]), iat |-> 0])),
      Jwt("k1", Obj([tokenType |-> "refresh", iat |-> 0])),
      Jwt("k1", Obj([data |-> Str("u1"), tokenType |-> "refresh", iat |-> 0])) }

\* the Authorization headers presented to renew and to parseToken
TokenHeadersSeq ==
    { NoHeader, EmptyHeader, <<Plain("Bearer")>>, <<Plain("Bearer"), Plain("")>>,
      Basic(Creds(alice, s3cret)) }
        \cup { Bearer(t) : t \in IssuedTokens \cup CraftedTokensSeq }
        \cup { <<Plain("bearer"), t>> : t \in IssuedTokens }
        \cup { <<Plain("Bearer"), t, Plain("tail")>> : t \in IssuedTokens }

\* the values of Date.now() when the client begins, in milliseconds
ClockStartsSeq == { 0, 999 }

\* the steps by which the clock advances, in milliseconds: to either side of
\* the expiry of an access token and of a refresh token
ClockStepsSeq == { 29999, 30001, 604799999, 604800001 }

InitSeq ==
    /\ store = {}
    /\ nextId = 1
    /\ secret \in Keys \cup {NoSecret}
    /\ now \in ClockStartsSeq
    /\ ticks = 0
    /\ calls = EmptyBag
    /\ last = NoResponse
    /\ logins = <<>>
    /\ nlogins = 0
    /\ rot = [u \in UserIDs |-> 0]
    /\ users = Users
    /\ nuserops = 0

NextSeq ==
    \/ \E auth \in LoginHeadersSeq, data \in AccessDataSeq :
           calls = EmptyBag /\ LoginStart(auth, data)
    \/ \E c \in BagToSet(calls) : LoginLookup(c)
    \/ \E c \in BagToSet(calls) : LoginDestroy(c)
    \/ \E c \in BagToSet(calls) : LoginCreate(c)
    \/ \E c \in BagToSet(calls) : LoginReturn(c)
    \/ \E auth \in TokenHeadersSeq, data \in AccessDataSeq :
           calls = EmptyBag /\ RenewStart(auth, data)
    \/ \E c \in BagToSet(calls) : RenewFindOne(c)
    \/ \E c \in BagToSet(calls) : RenewReturn(c)
    \/ \E props \in NewUsers : calls = EmptyBag /\ UserCreateStart(props)
    \/ \E c \in BagToSet(calls) : UserCreate(c)
    \/ \E id \in UpdatedIDs, props \in UpdatedProps :
           calls = EmptyBag /\ UserUpdateStart(id, props)
    \/ \E id \in DeletedIDs : calls = EmptyBag /\ UserDeleteStart(id)
    \/ \E c \in BagToSet(calls) : UserGetRecord(c)
    \/ \E c \in BagToSet(calls) : UserRecordUpdate(c)
    \/ \E type \in {"access", "refresh"}, auth \in TokenHeadersSeq :
           calls = EmptyBag /\ ParseToken(type, auth)
    \/ \E d \in ClockStepsSeq :
           (\A c \in BagToSet(calls) : c.pc = "issueToken") /\ Tick(d)

SpecSeq == InitSeq /\ [][NextSeq]_vars

----------------------------------------------------------------------------
(* Vocabulary of the properties *)

\* the results a call of renew(auth) may end in when it runs now and the store
\* answers: one result for each row findOne may return
RenewResults(auth) ==
    LET tokenData == renewTokenData(auth, now, secret) IN
    IF ~tokenData.ok THEN {tokenData.err.name}
    ELSE { LET known == assertRefreshTokenKnown(tokenDB, tokenData.val.userID,
                                                tokenData.val.tokenID)
               accessToken == issueToken("access", Undefined, now, secret)
           IN  IF ~known.ok THEN known.err.name
               ELSE IF ~accessToken.ok THEN accessToken.err.name
               ELSE "ok" :
           tokenDB \in findOne(store, tokenData.val.userID) }

\* the token is a JWT signed with the key of the process
ValidlySigned(token) ==
    token.w = "jwt" /\ secret # NoSecret /\ token.key = secret

\* the clock, in whole seconds, has not passed the token's exp plus the tolerance
Unexpired(token) == now \div 1000 < token.payload.v.exp + 1

\* the step answers a login: parseAuthValue threw, or a login in flight ended
LoginAnswer ==
    /\ last'.op = "login"
    /\ \/ calls' = calls /\ last' # last
       \/ \E c \in BagToSet(calls) : c.op = "login" /\ calls' = calls (-) SetToBag({c})

\* the step answers a renew before any store call: parseToken or a check of
\* the token data threw
RenewThrows == last'.op = "renew" /\ calls' = calls /\ last' # last

\* the step sends the findOne query of the renew call c
RenewProceeds(c) ==
    c.op = "renew" /\ c.pc = "findOne" /\ calls' = calls (+) SetToBag({c})

\* the step ends the renew call c
RenewEnds(c) ==
    c \in BagToSet(calls) /\ c.op = "renew" /\ calls' = calls (-) SetToBag({c})

\* the step ends the renew call c, which was waiting for findOne: the token is
\* refused, or findOne is rejected
RenewRefused(c) == RenewEnds(c) /\ c.pc = "findOne"

\* findOne answers the renew call c, and assertRefreshTokenKnown returns
RenewAccepted(c) ==
    /\ c \in BagToSet(calls) /\ c.op = "renew" /\ c.pc = "findOne"
    /\ calls' = (calls (-) SetToBag({c}))
                    (+) SetToBag({[c EXCEPT !.pc = "issueToken"]})

\* the step answers a call of parseToken
ParseTokenAnswer == last'.op = "parseToken" /\ calls' = calls /\ last' # last

\* the j-th successful login began after the i-th had completed
InSequence(i, j) == i < j /\ logins[j].start >= i

\* no destroy and no create but its own acted on the rows of its user since the
\* k-th successful login began
Undisturbed(k) ==
    /\ logins[k].rot1 = logins[k].rot0 + 2
    /\ rot[logins[k].userID] = logins[k].rot1

----------------------------------------------------------------------------
(* C1 *)

\* C1: in every reachable state the store holds at most one row per user,
\* whatever the interleaving of the store calls of logins and renews.
\* Violated: issueRefreshToken destroys and creates in two separate store
\* calls, and two logins of one user that both destroy before either creates
\* leave two rows.
C1_AtMostOneRecordPerSubject ==
    \A u \in UserIDs : Cardinality(RowsOf(store, u)) <= 1

----------------------------------------------------------------------------
(* C2 *)

\* C2: when two logins of one user succeeded in sequence, renew with the
\* refresh token of the first fails with AuthRefreshTokenUnknownError as long
\* as that token is not expired; and renew with the refresh token of the
\* second succeeds, as long as it is not expired and no other login of the
\* user has acted on the store since the second began.
C2_RotationInvalidation ==
    \A i, j \in 1..Len(logins) :
        (InSequence(i, j) /\ logins[i].userID = logins[j].userID) =>
            /\ Unexpired(logins[i].refreshToken.value) =>
                 RenewResults(Bearer(logins[i].refreshToken.value))
                     = {"AuthRefreshTokenUnknownError"}
            /\ (Unexpired(logins[j].refreshToken.value) /\ Undisturbed(j)) =>
                 RenewResults(Bearer(logins[j].refreshToken.value)) = {"ok"}

\* two logins of one user in sequence, both tokens unexpired: the first token
\* is refused, the second accepted
C2_Witness ==
    \E i, j \in 1..Len(logins) :
        /\ InSequence(i, j) /\ logins[i].userID = logins[j].userID
        /\ Unexpired(logins[i].refreshToken.value)
        /\ Unexpired(logins[j].refreshToken.value) /\ Undisturbed(j)
        /\ RenewResults(Bearer(logins[i].refreshToken.value))
               = {"AuthRefreshTokenUnknownError"}
        /\ RenewResults(Bearer(logins[j].refreshToken.value)) = {"ok"}

----------------------------------------------------------------------------
(* C3 *)

\* the userID and the tokenID in the data of the refresh token of a header
SubjectOf(auth) == auth[2].payload.v.data.v.userID
RecordOf(auth) == auth[2].payload.v.data.v.tokenID

\* C3: at the step where findOne answers a renew, the call is accepted only if
\* the store holds a row of the token's userID whose id is the token's
\* tokenID, and only an accepted call returns a token; when the store holds
\* no row of that user, or the row findOne returns has another id (as it must
\* when no row of the user has the token's id), the call is not accepted and
\* fails with AuthRefreshTokenUnknownError.
C3_RenewOnlyKnownToken ==
    [][\A c \in BagToSet(calls) :
          /\ RenewAccepted(c) =>
                [id |-> RecordOf(c.auth), userID |-> SubjectOf(c.auth)] \in store
          /\ (RenewEnds(c) /\ last'.result.ok) => c.pc = "issueToken"
          /\ (RenewRefused(c) /\ last'.result # Err(StoreError)) =>
                /\ ~last'.result.ok
                /\ last'.result.err.name = "AuthRefreshTokenUnknownError"]_vars

\* a renew was refused as unknown while the store holds a row of the token's
\* user, with another id
C3_Witness ==
    /\ last.op = "renew" /\ ~last.result.ok
    /\ last.result.err.name = "AuthRefreshTokenUnknownError"
    /\ RowsOf(store, SubjectOf(last.auth)) # {}
    /\ \A row \in RowsOf(store, SubjectOf(last.auth)) : row.id # RecordOf(last.auth)

----------------------------------------------------------------------------
(* C4 *)

\* the i-th and the j-th successful login ran concurrently: the later one to
\* complete began before the earlier one completed
Concurrent(i, j) == i < j /\ logins[j].start < i

\* no destroy and no create but those of the two logins acted on the rows of
\* their user since the first of them began
OnlyThese(i, j) ==
    LET first == IF logins[i].rot0 <= logins[j].rot0 THEN logins[i].rot0
                 ELSE logins[j].rot0
    IN  rot[logins[i].userID] = first + 4

\* C4: after two concurrent logins of one user have both completed, renew
\* accepts exactly one of the two refresh tokens and refuses the other as
\* unknown.
\* Violated: when both destroys precede both creates the store keeps both rows,
\* findOne may return either, and each token is accepted by some renew and
\* refused by another.
C4_LastWriteWins ==
    \A i, j \in 1..Len(logins) :
        ( /\ Concurrent(i, j) /\ logins[i].userID = logins[j].userID
          /\ OnlyThese(i, j)
          /\ Unexpired(logins[i].refreshToken.value)
          /\ Unexpired(logins[j].refreshToken.value) ) =>
            LET ri == RenewResults(Bearer(logins[i].refreshToken.value))
                rj == RenewResults(Bearer(logins[j].refreshToken.value))
            IN  \/ ri = {"ok"} /\ rj = {"AuthRefreshTokenUnknownError"}
                \/ rj = {"ok"} /\ ri = {"AuthRefreshTokenUnknownError"}

----------------------------------------------------------------------------
(* C5 *)

\* the step is a store call of d taking effect: a destroy, a create or a findOne
StoreCall(d) == LoginDestroy(d) \/ LoginCreate(d) \/ RenewFindOne(d)

\* C5: rotation is atomic: while a login is between its destroy and its
\* create, no store call of another request on the rows of the same user takes
\* effect.
\* Violated: the destroy and the create are two awaited calls with no
\* transaction around them, and a findOne, a destroy or a create of another
\* request runs between them.
C5_RotateAtomic ==
    [][\A c \in BagToSet(calls) :
          (c.op = "login" /\ c.pc = "create") =>
              ~ \E d \in BagToSet(calls) :
                    /\ d.userID = c.userID
                    /\ d # c \/ CopiesIn(c, calls) > 1
                    /\ StoreCall(d)
                    /\ c \in BagToSet(calls')]_vars

----------------------------------------------------------------------------
(* C6 *)

\* the step answers a login before any query is sent: parseAuthValue threw
LoginThrows == last'.op = "login" /\ calls' = calls /\ last' # last

\* the step ends the login call c, which was waiting for findByLogin: the
\* credential is refused, or the lookup is rejected
LookupEnds(c) ==
    /\ c \in BagToSet(calls) /\ c.op = "login" /\ c.pc = "findByLogin"
    /\ calls' = calls (-) SetToBag({c})

\* C6: a login that fails in validateCreds never reaches the refresh-token
\* store: the step that answers it (the header refused, the credential
\* refused once findByLogin has answered, or findByLogin rejected) leaves the
\* rows and the id counter as they were, sends no call of the store and
\* returns an error, no token; and every login that waits on the store passed
\* validation with the account findByLogin answered.
C6_InvalidCredentialsTouchNothing ==
    /\ [](\A c \in BagToSet(calls) :
             (c.op = "login" /\ c.pc \in {"destroy", "create", "issueToken"}) =>
                 validateCreds(c.auth, c.record).ok)
    /\ [][(\/ LoginThrows
           \/ \E c \in BagToSet(calls) : LookupEnds(c)) =>
              /\ store' = store /\ nextId' = nextId /\ rot' = rot
              /\ logins' = logins
              /\ \A d \in BagToSet(calls') : CopiesIn(d, calls') <= CopiesIn(d, calls)
              /\ ~last'.result.ok
              /\ last'.result.err.name \in
                     {"AuthHeaderMissingError", "AuthTypeUnexpectedError",
                      "AuthCredentialsInvalidError", StoreError.name}]_vars

\* login with alice's name and a wrong password was refused while the store
\* holds a row of alice
C6_Witness ==
    /\ last.op = "login" /\ last.auth = Basic(Creds(alice, wrong))
    /\ ~last.result.ok /\ last.result.err.name = "AuthCredentialsInvalidError"
    /\ RowsOf(store, "u1") # {}

----------------------------------------------------------------------------
(* C7 *)

\* C7: however a login fails, the step in which it fails adds no row to the
\* store.
\* Violated: issueRefreshToken creates the row before it signs, so without
\* JWT_TOKEN_SECRET the create succeeds, jwt.sign throws, and the failed login
\* leaves its row behind.
C7_FailedLoginCreatesNoRecord ==
    [][(LoginAnswer /\ ~last'.result.ok) => store' \subseteq store]_vars

----------------------------------------------------------------------------
(* C8 *)

\* C8: renew and parseToken leave the store as it is, and a refresh token that
\* a renew accepted is accepted by every renew that follows, until the token
\* expires or a login of its user acts on the store.
\* Violated in its second half: with two rows of one user in the store (C1),
\* findOne may return either, and the token a renew has just accepted is
\* refused by the next.
C8_RenewReadOnlyAndStable ==
    [][/\ (\/ RenewThrows \/ ParseTokenAnswer
           \/ \E c \in BagToSet(calls) : RenewEnds(c) \/ RenewAccepted(c))
            => store' = store /\ nextId' = nextId
       /\ \A c \in BagToSet(calls) :
            RenewAccepted(c) =>
                (RenewResults(c.auth))' \subseteq {"ok", "AuthTokenExpiredError"}]_vars

----------------------------------------------------------------------------
(* C9 *)

\* the header has the word Bearer and a token after it
IsBearer(auth) ==
    auth # NoHeader /\ auth # EmptyHeader /\ auth[1] = Plain("Bearer")
        /\ Len(auth) >= 2 /\ auth[2] # Plain("")

\* the token verifies: it is signed with the key of the process and not expired
Verifies(token) ==
    /\ ValidlySigned(token)
    /\ (TypeOf(token.payload) = "object" /\ In("exp", token.payload)) => Unexpired(token)

\* the payload of the token is an object whose tokenType is type
HasKind(token, type) ==
    /\ TypeOf(token.payload) = "object"
    /\ In("tokenType", token.payload)
    /\ token.payload.v.tokenType = type

\* the data of the token is an object with userID and tokenID
HasRefreshData(token) ==
    /\ In("data", token.payload)
    /\ TypeOf(token.payload.v.data) = "object"
    /\ In("userID", token.payload.v.data)
    /\ In("tokenID", token.payload.v.data)

\* C9: renew returns an access token only after the header was parsed as
\* Bearer, the token verified, its kind found to be refresh, its data found to
\* hold userID and tokenID, and the row of the store found to match; a call
\* that fails one of these ends with the error of the first that fails and
\* returns no token.
C9_RenewFailuresIssueNothing ==
    [][/\ \A c \in BagToSet(calls') :
            RenewProceeds(c) =>
                /\ IsBearer(c.auth) /\ Verifies(c.auth[2])
                /\ HasKind(c.auth[2], "refresh") /\ HasRefreshData(c.auth[2])
       /\ RenewThrows =>
            /\ ~last'.result.ok
            /\ LET auth == last'.auth
                   name == last'.result.err.name
               IN  IF ~IsBearer(auth)
                   THEN name \in {"AuthHeaderMissingError", "AuthTypeUnexpectedError"}
                   ELSE IF ~Verifies(auth[2])
                   THEN name \in {"AuthJwtError", "AuthTokenExpiredError"}
                   ELSE IF ~HasKind(auth[2], "refresh")
                   THEN name \in {"AuthTokenTypeUnexpectedError",
                                  "AuthTokenPayloadUnknownError"}
                   ELSE /\ ~HasRefreshData(auth[2])
                        /\ name = "AuthTokenPayloadUnknownError"
       /\ \A c \in BagToSet(calls) :
            RenewAccepted(c) =>
                [id |-> RecordOf(c.auth), userID |-> SubjectOf(c.auth)] \in store
       /\ \A c \in BagToSet(calls) :
            RenewEnds(c) =>
                IF last'.result.ok
                THEN /\ c.pc = "issueToken"
                     /\ DOMAIN last'.result.val = {"accessToken"}
                     /\ last'.result.val.accessToken.type = "access"
                ELSE last'.result.err.name \in
                         {"AuthRefreshTokenUnknownError", "StoreError"}]_vars

\* renew refused a validly signed refresh token whose data lacks tokenID
C9_Witness ==
    /\ last.op = "renew" /\ ~last.result.ok
    /\ last.result.err.name = "AuthTokenPayloadUnknownError"
    /\ IsBearer(last.auth) /\ Verifies(last.auth[2])
    /\ HasKind(last.auth[2], "refresh") /\ ~HasRefreshData(last.auth[2])

----------------------------------------------------------------------------
(* C10 *)

\* C10: parseToken refuses, with AuthTokenTypeUnexpectedError, a token that
\* verifies and whose kind is the other one: an access token where a refresh
\* token is expected and a refresh token where an access token is expected;
\* and no renew that presents an access token waits on the store or succeeds.
C10_KindIsolation ==
    /\ [](\A c \in BagToSet(calls) : c.op = "renew" => ~HasKind(c.auth[2], "access"))
    /\ [][/\ ParseTokenAnswer =>
               \A other \in {"access", "refresh"} \ {last'.expectedType} :
                   ( /\ IsBearer(last'.auth) /\ Verifies(last'.auth[2])
                     /\ HasKind(last'.auth[2], other) ) =>
                       /\ ~last'.result.ok
                       /\ last'.result.err.name = "AuthTokenTypeUnexpectedError"
          /\ (last'.op = "renew" /\ last' # last /\ last'.result.ok) =>
               ~HasKind(last'.auth[2], "access")]_vars

\* parseToken, expecting an access token, refused a refresh token that a login
\* returned and that verifies
C10_Witness ==
    /\ last.op = "parseToken" /\ last.expectedType = "access"
    /\ IsBearer(last.auth) /\ Verifies(last.auth[2]) /\ HasKind(last.auth[2], "refresh")
    /\ \E k \in 1..Len(logins) : logins[k].refreshToken.value = last.auth[2]
    /\ ~last.result.ok /\ last.result.err.name = "AuthTokenTypeUnexpectedError"

----------------------------------------------------------------------------
(* C11 *)

\* the tokens the client holds, as issueToken returned them: the refresh
\* tokens of the successful logins and the access token of the latest response
HeldTokens ==
    { logins[k].refreshToken : k \in 1..Len(logins) }
        \cup (IF last.op \in {"login", "renew"} /\ last.result.ok
              THEN {last.result.val.accessToken} ELSE {})

\* C11: a token of lifespan L seconds (30 for an access token, 604800 for a
\* refresh token) issued at second t0 fails verification with
\* AuthTokenExpiredError at every clock second t >= t0 + L + 1 and verifies at
\* every clock second t <= t0 + L - 1.
C11_ExpiryWithTolerance ==
    \A tok \in HeldTokens :
        LET t == now \div 1000
            t0 == tok.issuedAt \div 1000
            L == IF tok.type = "access" THEN 30 ELSE 604800
            res == extractPayload(tok.type, tok.value, now, secret)
        IN  /\ t >= t0 + L + 1 =>
                  ~res.ok /\ res.err.name = "AuthTokenExpiredError"
            /\ t <= t0 + L - 1 => res.ok

\* an access token issued at 999 ms is refused as expired at 31000 ms, the
\* first clock second past its lifespan and the tolerance
C11_Witness ==
    \E tok \in HeldTokens :
        /\ tok.type = "access" /\ tok.issuedAt = 999 /\ now = 31000
        /\ ~extractPayload(tok.type, tok.value, now, secret).ok
        /\ extractPayload(tok.type, tok.value, now, secret).err.name
               = "AuthTokenExpiredError"

----------------------------------------------------------------------------
(* C12 *)

\* the header is Basic followed by the base64 of a credential
IsBasicCreds(auth) ==
    /\ auth # NoHeader /\ auth # EmptyHeader /\ auth[1] = Plain("Basic")
    /\ Len(auth) >= 2 /\ auth[2].w = "base64"

\* the login of the credential: what precedes its first colon
DecodedLogin(auth) == Split(auth[2].text, Colon)[1]

\* the secret of the credential: all that follows its first colon; <<>> when
\* the credential holds no colon
DecodedSecret(auth) ==
    LET text == auth[2].text
        login == DecodedLogin(auth)
    IN  IF Len(login) = Len(text) THEN <<>>
        ELSE <<SubSeq(text, Len(login) + 2, Len(text))>>

\* an account has the decoded login and the decoded secret
Matches(auth) ==
    \E u \in users :
        /\ ~u.isDeleted
        /\ u.login = DecodedLogin(auth) /\ <<u.password>> = DecodedSecret(auth)

\* the step ends the login call c with the answer of validateCreds:
\* findByLogin answered and the credential is refused
LoginRefused(c) == LookupEnds(c) /\ last'.result # Err(StoreError)

\* the step sends the findByLogin query of the login call c: parseAuthValue
\* returned
LoginBegins(c) ==
    c.op = "login" /\ c.pc = "findByLogin" /\ calls' = calls (+) SetToBag({c})

\* the step turns the login call c, which was waiting for findByLogin, into d,
\* which waits for destroy: validateCreds returned
LoginAccepted(c, d) ==
    /\ c.op = "login" /\ c.pc = "findByLogin"
    /\ d.op = "login" /\ d.pc = "destroy" /\ d.auth = c.auth
    /\ calls' = (calls (-) SetToBag({c})) (+) SetToBag({d})

\* C12: validateCreds returns the account exactly when an account has the
\* decoded login and its stored secret equals all that follows the first colon
\* of the decoded credential; in every other case it fails with
\* AuthCredentialsInvalidError carrying the decoded login.
\* Violated: creds.split(":") keeps only the piece between the first and the
\* second colon, so "alice:s3cret:x" is accepted for the secret "s3cret" and
\* the right secret "p:w" of carol is refused; and toString("ascii") clears
\* the high bit of every byte, so the right credential of the account
\* "z\u00f6e" is refused, with an error that carries another login.
C12_ValidateCredsExact ==
    [][/\ \A c \in BagToSet(calls) :
            (LoginRefused(c) /\ IsBasicCreds(c.auth)) =>
                /\ ~Matches(c.auth)
                /\ last'.result = Err(AuthCredentialsInvalidError(DecodedLogin(c.auth)))
       /\ \A c \in BagToSet(calls), d \in BagToSet(calls') :
            LoginAccepted(c, d) =>
                /\ IsBasicCreds(c.auth) /\ Matches(c.auth)
                /\ \E u \in users : u.login = DecodedLogin(c.auth) /\ u.id = d.userID]_vars

----------------------------------------------------------------------------
(* C13 *)

\* C13: the failure of a login whose credential is refused is the same
\* whether no account has the login or the secret does not match: always
\* AuthCredentialsInvalidError with status 401 and nothing but the login that
\* was looked up (which determines the message, line 307), and no effect on
\* the store.
C13_FailureHidesWhichHalf ==
    [][\A c \in BagToSet(calls) :
          LoginRefused(c) =>
              /\ last'.result = Err([name |-> "AuthCredentialsInvalidError",
                                      statusCode |-> 401,
                                      login |-> c.creds[1]])
              /\ store' = store /\ nextId' = nextId]_vars

\* a login naming no account was refused, while the store holds a row, with
\* the error a wrong secret for an account gets
C13_Witness ==
    /\ last.op = "login" /\ last.auth = Basic(Creds(dave, s3cret))
    /\ \A u \in users : u.login # dave
    /\ last.result = Err(AuthCredentialsInvalidError(dave))
    /\ \E u \in findByLogin(users, alice) :
           /\ u # Null
           /\ validateCreds(Basic(Creds(alice, wrong)), u)
                  = Err([last.result.err EXCEPT !.login = alice])
    /\ store # {}

----------------------------------------------------------------------------
(* C14 *)

\* C14: parseToken("refresh", auth) fails with AuthTokenPayloadUnknownError
\* whenever the data of the verified refresh token lacks userID or tokenID, and
\* never returns refresh data without both.
\* Violated: parseToken returns payload.data unexamined (line 263); the two
\* fields are looked for in renew only (lines 284-291).
C14_ParseRefreshValidatesData ==
    [][(ParseTokenAnswer /\ last'.expectedType = "refresh") =>
          /\ ( /\ IsBearer(last'.auth) /\ Verifies(last'.auth[2])
                /\ HasKind(last'.auth[2], "refresh")
                /\ ~HasRefreshData(last'.auth[2]) ) =>
                  /\ ~last'.result.ok
                  /\ last'.result.err.name = "AuthTokenPayloadUnknownError"
          /\ last'.result.ok => HasRefreshData(last'.auth[2])]_vars

----------------------------------------------------------------------------
(* C15 *)

\* the type of authorization the operation expects
ExpectedAuthType(op) == IF op = "login" THEN "Basic" ELSE "Bearer"

\* C15: login, renew and parseToken decide on the header in this order: an
\* absent or empty header fails with AuthHeaderMissingError; otherwise a first
\* word that is not the expected type fails with AuthTypeUnexpectedError
\* naming both; otherwise an empty second word fails with
\* AuthHeaderMissingError; otherwise the second word is the value, the call
\* fails with neither error, and words after the second make no difference.
\* login and renew send their first query only past these checks, and what
\* ends them later is neither error.
C15_ParseAuthValueOrder ==
    [][/\ (last' # last /\ calls' = calls /\ last'.op \in {"login", "renew", "parseToken"}) =>
            LET auth == last'.auth
                expected == ExpectedAuthType(last'.op)
                result == last'.result
            IN  IF auth = <<>> \/ auth = <<Plain("")>>
                THEN result = Err(AuthHeaderMissingError)
                ELSE IF auth[1] # Plain(expected)
                THEN result = Err(AuthTypeUnexpectedError(auth[1], expected))
                ELSE IF Len(auth) = 1 \/ auth[2] = Plain("")
                THEN result = Err(AuthHeaderMissingError)
                ELSE /\ result.ok \/ result.err.name \notin
                            {"AuthHeaderMissingError", "AuthTypeUnexpectedError"}
                     /\ last'.op = "parseToken" =>
                            result = parseToken(last'.expectedType,
                                                <<auth[1], auth[2]>>, now, secret)
       /\ \A c \in BagToSet(calls') :
            (LoginBegins(c) \/ RenewProceeds(c)) =>
                /\ Len(c.auth) >= 2
                /\ c.auth[1] = Plain(ExpectedAuthType(c.op))
                /\ c.auth[2] # Plain("")
       /\ \A c \in BagToSet(calls) :
            (c.op \in {"login", "renew"} /\ calls' = calls (-) SetToBag({c})) =>
                \/ last'.result.ok
                \/ last'.result.err.name \notin
                       {"AuthHeaderMissingError", "AuthTypeUnexpectedError"}]_vars

\* login refused a header that is the one word Bearer for its type, not for
\* its missing value
C15_Witness ==
    /\ last.op = "login" /\ last.auth = <<Plain("Bearer")>>
    /\ last.result = Err(AuthTypeUnexpectedError(Plain("Bearer"), "Basic"))

----------------------------------------------------------------------------
(* C16 *)

\* C16: parseToken("access", auth) on an access token that verifies returns
\* the data of the token whatever the store holds: the outcome is that of the
\* signature and the expiry alone, also after a later login of the same user
\* has destroyed the row of the login that issued the token.
C16_AccessIndependentOfStore ==
    [][( /\ ParseTokenAnswer /\ last'.expectedType = "access"
         /\ IsBearer(last'.auth) /\ Verifies(last'.auth[2])
         /\ HasKind(last'.auth[2], "access") ) =>
            last'.result = Ok(Prop(last'.auth[2].payload, "data"))]_vars

\* an access token was accepted while the store is empty, the one row of the
\* one completed login destroyed by a later login of its user
C16_Witness ==
    /\ last.op = "parseToken" /\ last.expectedType = "access" /\ last.result.ok
    /\ HasKind(last.auth[2], "access")
    /\ Len(logins) = 1 /\ store = {}
    /\ rot[logins[1].userID] > logins[1].rot1
    /\ "AuthRefreshTokenUnknownError"
           \in RenewResults(Bearer(logins[1].refreshToken.value))

----------------------------------------------------------------------------
(* C17 *)

\* the step is the create of the login call c taking effect: c becomes d,
\* which holds the id of the row and the refresh token
LoginCreated(c, d) ==
    /\ c.op = "login" /\ c.pc = "create"
    /\ d.op = "login" /\ d.pc = "issueToken" /\ d.auth = c.auth /\ d.userID = c.userID
    /\ calls' = (calls (-) SetToBag({c})) (+) SetToBag({d})

\* C17: the access token a login or a renew returns for the data D, presented
\* to parseToken("access") at any time from its issue to just before the expiry
\* it reports, is of kind access and yields D; the refresh token a login
\* returns yields through parseToken("refresh") the userID of the account and
\* the id of the row the login created.
C17_RoundTrip ==
    [][/\ \A c \in BagToSet(calls) :
            ( /\ c.op \in {"login", "renew"}
              /\ calls' = calls (-) SetToBag({c}) /\ last'.result.ok ) =>
                /\ LET tok == last'.result.val.accessToken IN
                      /\ tok.value.payload.v.tokenType = "access"
                      /\ \A clock \in {tok.issuedAt, now', tok.expiresAt - 1} :
                            parseToken("access", Bearer(tok.value), clock, secret)
                                = Ok(c.data)
                /\ c.op = "login" =>
                      LET tok == last'.result.val.refreshToken IN
                      /\ c.userID = c.record.id
                      /\ \A clock \in {tok.issuedAt, now', tok.expiresAt - 1} :
                            clock < tok.expiresAt =>
                                parseToken("refresh", Bearer(tok.value), clock, secret)
                                    = Ok(Obj([tokenID |-> c.tokenID,
                                              userID |-> c.userID]))
       /\ \A c \in BagToSet(calls), d \in BagToSet(calls') :
            LoginCreated(c, d) =>
                store' \ store = {[id |-> d.tokenID, userID |-> d.userID]}]_vars

\* a login returned an access token for the data "admin" that parseToken
\* reads back, and a refresh token that reads back as the row of the store
C17_Witness ==
    /\ last.op = "login" /\ last.result.ok
    /\ parseToken("access", Bearer(last.result.val.accessToken.value), now, secret)
           = Ok(Str("admin"))
    /\ \E row \in store :
           parseToken("refresh", Bearer(last.result.val.refreshToken.value), now, secret)
               = Ok(Obj([tokenID |-> row.id, userID |-> row.userID]))

----------------------------------------------------------------------------
(* C18 *)

\* C18: once a login of a user has completed after a refresh token of that
\* user was issued, no renew accepts that token, in any later state.
\* Violated: every row does get an id no row had before, but two logins of one
\* user that overlap leave both rows in the store (C1, C5), and the token of
\* the login that completed first is accepted whenever findOne returns its row.
C18_InvalidationPermanent ==
    \A i, j \in 1..Len(logins) :
        (i < j /\ logins[i].userID = logins[j].userID) =>
            "ok" \notin RenewResults(Bearer(logins[i].refreshToken.value))

----------------------------------------------------------------------------
(* C19 *)

\* C19: the destroy and the create of a login act on the rows of its own user
\* only: the rows of every other user are the same after the step, and so is
\* what renew answers to each refresh token of another user.
C19_SubjectIsolation ==
    [][\A c \in BagToSet(calls) :
          (LoginDestroy(c) \/ LoginCreate(c)) =>
              /\ \A u \in UserIDs \ {c.userID} : RowsOf(store', u) = RowsOf(store, u)
              /\ \A k \in 1..Len(logins) :
                    logins[k].userID # c.userID =>
                        (RenewResults(Bearer(logins[k].refreshToken.value)))'
                            = RenewResults(Bearer(logins[k].refreshToken.value))]_vars

\* bob logged in, then alice: bob's row is in the store and renew accepts
\* bob's refresh token
C19_Witness ==
    /\ Len(logins) = 2
    /\ logins[1].userID = "u2" /\ logins[2].userID = "u1"
    /\ RowsOf(store, "u1") # {} /\ RowsOf(store, "u2") # {}
    /\ RenewResults(Bearer(logins[1].refreshToken.value)) = {"ok"}

----------------------------------------------------------------------------
(* C20 *)

\* C20: the expiry a token reports is never optimistic: a token issued at
\* issuedAt with expiresAt = issuedAt + lifespan does not fail verification
\* with AuthTokenExpiredError at any time before expiresAt.
C20_ReportedExpiryNotOptimistic ==
    \A tok \in HeldTokens :
        /\ tok.expiresAt = tok.issuedAt
               + (IF tok.type = "access" THEN 30000 ELSE 604800000)
        /\ now < tok.expiresAt =>
              LET res == extractPayload(tok.type, tok.value, now, secret)
              IN  res.ok \/ res.err.name # "AuthTokenExpiredError"

\* an access token issued at 999 ms still verifies at 30998 ms, one
\* millisecond before the expiry it reports
C20_Witness ==
    \E tok \in HeldTokens :
        /\ tok.type = "access" /\ tok.issuedAt = 999
        /\ now = tok.expiresAt - 1
        /\ extractPayload(tok.type, tok.value, now, secret).ok

----------------------------------------------------------------------------
(* C21 *)

\* the token is signed with the key of the process and its exp, with the
\* tolerance, has passed
Expired(token) ==
    /\ ValidlySigned(token)
    /\ TypeOf(token.payload) = "object" /\ In("exp", token.payload)
    /\ ~Unexpired(token)

\* C21: parseToken, called by a collaborator or by renew, looks at the
\* signature and the expiry before the shape of the payload and the kind: a
\* token with a bad signature fails with AuthJwtError and an expired token with
\* AuthTokenExpiredError carrying the expected kind, whatever its own kind and
\* payload; AuthTokenTypeUnexpectedError and AuthTokenPayloadUnknownError are
\* thrown for tokens that verified only.
C21_VerifyBeforeKind ==
    [][( /\ ParseTokenAnswer \/ RenewThrows
         /\ IsBearer(last'.auth) ) =>
            LET token == last'.auth[2]
                expected == IF last'.op = "renew" THEN "refresh"
                            ELSE last'.expectedType
                result == last'.result
            IN  /\ ~ValidlySigned(token) =>
                      ~result.ok /\ result.err.name = "AuthJwtError"
                /\ Expired(token) =>
                      /\ ~result.ok /\ result.err.name = "AuthTokenExpiredError"
                      /\ result.err.type = expected
                /\ (~result.ok /\ result.err.name \in
                        {"AuthTokenTypeUnexpectedError", "AuthTokenPayloadUnknownError"})
                      => Verifies(token)]_vars

\* parseToken, expecting a refresh token, refused an expired access token as
\* an expired refresh token
C21_Witness ==
    /\ last.op = "parseToken" /\ last.expectedType = "refresh"
    /\ IsBearer(last.auth) /\ Expired(last.auth[2])
    /\ HasKind(last.auth[2], "access")
    /\ ~last.result.ok /\ last.result.err.name = "AuthTokenExpiredError"
    /\ last.result.err.type = "refresh"

====
